---- MODULE Spec2Model ----
(***************************************************************************)
(* Daily Orders (app.py): paginated fetch of WooCommerce orders,           *)
(* normalisation into a table, selection in the Streamlit data editor and  *)
(* export of the selected rows as a two-sheet workbook.                    *)
(*                                                                         *)
(* Texts are modelled by their parts: a date_created text is the tuple of  *)
(* its numeric fields, a total text is <<units, hundredths>>; a text that  *)
(* does not have that shape is a tuple of another length.  Row columns     *)
(* the properties never read (Name, Mobile Number, Shipping Address,       *)
(* Items Ordered) are left out of the rows.                                *)
(***************************************************************************)
EXTENDS Integers, Sequences, FiniteSets, TLC

VARIABLES
    p_pc, p_raw, p_table, p_sel, p_out,     \* the pipeline called on its own
    f_src, f_st,                            \* fetch_orders running against a source
    orders_df,      \* st.session_state.orders_df
    selected,       \* the edits held by the data editor: the rows ticked
    notice,         \* what the last script run rendered below the button
    excel_data,     \* the workbook behind the download button, if one is offered
    last_src,       \* history: the source the last Fetch click ran against
    last_fetch,     \* history: the fetch_orders call of the last Fetch click
    table_raw,      \* history: the raw orders orders_df was made from
    last_effect     \* history: what the last Fetch click did to orders_df

p_vars == <<p_pc, p_raw, p_table, p_sel, p_out>>
f_vars == <<f_src, f_st>>
s_vars == <<orders_df, selected, notice, excel_data, last_src, last_fetch, table_raw, last_effect>>
vars == <<p_vars, f_vars, s_vars>>

(***************************************************************************)
(* Bounds of the input space.                                              *)
(***************************************************************************)
MaxId == 3          \* order ids are 1..MaxId
MaxOrders == 3      \* raw orders handed to process_orders
MaxPages == 3       \* pages a source of fetch_orders lists explicitly
MaxSessionPages == 2    \* the same, for the sources a session fetches from

(***************************************************************************)
(* Python values.                                                          *)
(***************************************************************************)
None == <<>>
Some(x) == <<x>>

NoError == [type |-> "none", op |-> "none", arg |-> <<>>]
ValueError(op, arg) == [type |-> "ValueError", op |-> op, arg |-> arg]
Returned(v) == [raised |-> FALSE, value |-> v, error |-> NoError]
Raised(e) == [raised |-> TRUE, value |-> <<>>, error |-> e]

(***************************************************************************)
(* Input data: raw orders as the REST source returns them.                 *)
(***************************************************************************)
\* item names, in code point order (the order sort_values gives)
ItemNames == <<"Apple", "Mango", "Widget">>

Item(n, q) == [name |-> n, quantity |-> q]
ItemNoQty(n) == [name |-> n]

GoodA ==
    [date_created |-> <<2024, 1, 1, 9, 30, 0>>, total |-> <<50, 0>>, status |-> "processing",
     line_items |-> <<Item("Widget", 1), Item("Mango", 2)>>]
GoodB ==
    [date_created |-> <<2024, 1, 2, 18, 5, 10>>, total |-> <<100, 0>>, status |-> "completed",
     line_items |-> <<Item("Widget", 3)>>]
\* "not-a-date"
BadDate ==
    [date_created |-> <<>>, total |-> <<75, 50>>, status |-> "processing",
     line_items |-> <<Item("Apple", 2)>>]

Profiles ==
    { GoodA, GoodB, BadDate,
      [date_created |-> <<2024, 1, 3, 0, 0, 0>>, total |-> <<0, 0>>, status |-> "cancelled",
       line_items |-> <<>>],
      \* "2024-13-01T00:00:00" with total "abc"
      [date_created |-> <<2024, 13, 1, 0, 0, 0>>, total |-> <<>>, status |-> "processing",
       line_items |-> <<Item("Mango", 1)>>],
      \* total ""
      [date_created |-> <<2024, 1, 2, 8, 0, 0>>, total |-> <<>>, status |-> "on-hold",
       line_items |-> <<Item("Mango", 1)>>],
      \* a line item without the quantity key
      [date_created |-> <<2024, 1, 1, 12, 0, 0>>, total |-> <<20, 0>>, status |-> "processing",
       line_items |-> <<ItemNoQty("Apple"), Item("Widget", 2)>>] }

RawOrder(i, p) ==
    [id |-> i, date_created |-> p.date_created, total |-> p.total,
     status |-> p.status, line_items |-> p.line_items]

RawOrders == { RawOrder(i, p) : i \in 1..MaxId, p \in Profiles }

SeqsUpTo(S, n) == UNION { [1..k -> S] : k \in 0..n }

(***************************************************************************)
(* process_orders                                                          *)
(***************************************************************************)
\* datetime.strptime(s, "%Y-%m-%dT%H:%M:%S"): the six fields, each in range
strptime_ok(s) ==
    /\ Len(s) = 6
    /\ s[1] \in 1..9999
    /\ s[2] \in 1..12
    /\ s[3] \in 1..31
    /\ s[4] \in 0..23
    /\ s[5] \in 0..59
    /\ s[6] \in 0..61

\* .strftime("%Y-%m-%d"): the calendar date of a parsed timestamp
strftime_date(s) == <<s[1], s[2], s[3]>>

\* float(text): decided for texts "units.hundredths"; the value in hundredths
float_ok(t) == Len(t) = 2 /\ t[2] \in 0..99
float_value(t) == t[1] * 100 + t[2]

\* variant of sorted_by_id: the orders are taken as received
sorted_unsorted(orders) == orders

\* sorted(orders, key=lambda x: x['id']): stable, ascending by id
RECURSIVE sorted_by_id(_)
sorted_by_id(orders) ==
    IF orders = <<>> THEN <<>>
    ELSE LET x == Head(orders)
             rest == sorted_by_id(Tail(orders))
             before == SelectSeq(rest, LAMBDA o : o.id < x.id)
             after == SelectSeq(rest, LAMBDA o : o.id >= x.id)
         IN  before \o <<x>> \o after

\* the dict appended for one order (idx is enumerate's 0-based index)
OrderRow(idx, order) ==
    [S_No |-> idx + 1,
     Select |-> FALSE,
     Order_ID |-> order.id,
     Date |-> strftime_date(order.date_created),
     Order_Status |-> order.status,
     Order_Value |-> float_value(order.total),
     No_of_Items |-> Len(order.line_items),
     Line_Items |-> order.line_items]

\* the for loop of process_orders from position k of the sorted list on:
\* the date is parsed before the total, the first failure raises
RECURSIVE process_loop(_, _, _)
process_loop(srt, k, data) ==
    IF k > Len(srt) THEN Returned(data)
    ELSE LET order == srt[k] IN
         IF ~strptime_ok(order.date_created)
         THEN Raised(ValueError("strptime", order.date_created))
         ELSE IF ~float_ok(order.total)
         THEN Raised(ValueError("float", order.total))
         ELSE process_loop(srt, k + 1, Append(data, OrderRow(k - 1, order)))

process_orders(orders) == process_loop(sorted_by_id(orders), 1, <<>>)

(***************************************************************************)
(* generate_excel                                                          *)
(***************************************************************************)
\* sheet 1: the projected and renamed columns, row order kept
OrdersSheet(df) ==
    [i \in 1..Len(df) |->
        [Order_No |-> df[i].Order_ID,
         Order_Total |-> df[i].Order_Value,
         Order_Status |-> df[i].Order_Status]]

\* (item['name'], item.get('quantity', 1)) of one line item
ItemPair(item) ==
    [name |-> item.name,
     quantity |-> IF "quantity" \in DOMAIN item THEN item.quantity ELSE 1]

\* items_list: every line item of every row, in row order
RECURSIVE items_list(_)
items_list(df) ==
    IF df = <<>> THEN <<>>
    ELSE [i \in 1..Len(Head(df).Line_Items) |-> ItemPair(Head(df).Line_Items[i])]
         \o items_list(Tail(df))

RECURSIVE SumQuantity(_)
SumQuantity(pairs) ==
    IF pairs = <<>> THEN 0 ELSE Head(pairs).quantity + SumQuantity(Tail(pairs))

\* variant of groupby_sum: a group keeps its first quantity (.first())
groupby_first(pairs) ==
    LET present == { pairs[i].name : i \in 1..Len(pairs) }
        keys == SelectSeq(ItemNames, LAMBDA n : n \in present)
    IN  [k \in 1..Len(keys) |->
            [Item_Name |-> keys[k],
             Quantity |-> Head(SelectSeq(pairs, LAMBDA p : p.name = keys[k])).quantity]]

\* groupby('Item Name', as_index=False).sum().sort_values('Item Name')
groupby_sum(pairs) ==
    LET present == { pairs[i].name : i \in 1..Len(pairs) }
        keys == SelectSeq(ItemNames, LAMBDA n : n \in present)
    IN  [k \in 1..Len(keys) |->
            [Item_Name |-> keys[k],
             Quantity |-> SumQuantity(SelectSeq(pairs, LAMBDA p : p.name = keys[k]))]]

\* the workbook written to the BytesIO; no path of generate_excel raises
generate_excel(df) ==
    Returned([Orders |-> OrdersSheet(df),
              Item_Summary |-> groupby_sum(items_list(df))])


(***************************************************************************)
(* fetch_orders                                                            *)
(***************************************************************************)
PerPage == 100

\* a response of the order source: status_code, text and the parsed body
Ok(body) == [status_code |-> 200, text |-> "json", json |-> body]
Err(code, text) == [status_code |-> code, text |-> text, json |-> <<>>]

\* the pages a source can answer with
PageA == <<RawOrder(2, GoodA)>>
PageB == <<RawOrder(3, GoodB), RawOrder(1, GoodA)>>
PageBad == <<RawOrder(2, BadDate)>>
Responses ==
    { Ok(<<>>), Ok(PageA), Ok(PageB), Ok(PageBad), Err(500, "Internal Server Error") }

\* a source answers page p with pages[p]; past the pages it lists it is
\* either out of data (an empty page) or keeps serving orders for ever
Sources(n) ==
    { [pages |-> ps, endless |-> e] : ps \in SeqsUpTo(Responses, n), e \in BOOLEAN }

\* requests.get(..., params={..., "per_page": 100, "page": page, ...})
requests_get(src, params) ==
    IF params.page <= Len(src.pages) THEN src.pages[params.page]
    ELSE IF src.endless THEN Ok(PageA)
    ELSE Ok(<<>>)

\* the state of one call: the locals page and all_orders, what it has
\* returned, the st.error messages it has shown, and the requests it has sent
FetchStart ==
    [page |-> 1, all_orders |-> <<>>, done |-> FALSE, result |-> <<>>,
     errors |-> <<>>, requests |-> <<>>]

\* variant of FetchStep: a page replaces the list instead of extending it
FetchStepOverwrite(st, src) ==
    LET params == [page |-> st.page, per_page |-> PerPage]
        response == requests_get(src, params)
        sent == [st EXCEPT !.requests = Append(@, params)]
    IN  IF response.status_code # 200
        THEN [sent EXCEPT !.errors = Append(@, [status_code |-> response.status_code,
                                                 text |-> response.text]),
                          !.done = TRUE, !.result = <<>>]
        ELSE IF response.json = <<>>
        THEN [sent EXCEPT !.done = TRUE, !.result = st.all_orders]
        ELSE [sent EXCEPT !.all_orders = response.json, !.page = @ + 1]

\* variant of FetchStep: an empty page does not leave the loop
FetchStepNoBreak(st, src) ==
    LET params == [page |-> st.page, per_page |-> PerPage]
        response == requests_get(src, params)
        sent == [st EXCEPT !.requests = Append(@, params)]
    IN  IF response.status_code # 200
        THEN [sent EXCEPT !.errors = Append(@, [status_code |-> response.status_code,
                                                 text |-> response.text]),
                          !.done = TRUE, !.result = <<>>]
        ELSE [sent EXCEPT !.all_orders = @ \o response.json, !.page = @ + 1]

\* variant of FetchStep: on an error the orders collected so far are returned
FetchStepPartial(st, src) ==
    LET params == [page |-> st.page, per_page |-> PerPage]
        response == requests_get(src, params)
        sent == [st EXCEPT !.requests = Append(@, params)]
    IN  IF response.status_code # 200
        THEN [sent EXCEPT !.errors = Append(@, [status_code |-> response.status_code,
                                                 text |-> response.text]),
                          !.done = TRUE, !.result = st.all_orders]
        ELSE IF response.json = <<>>
        THEN [sent EXCEPT !.done = TRUE, !.result = st.all_orders]
        ELSE [sent EXCEPT !.all_orders = @ \o response.json, !.page = @ + 1]

\* one iteration of the while loop: the request for the current page and
\* what the loop does with its response
FetchStep(st, src) ==
    LET params == [page |-> st.page, per_page |-> PerPage]
        response == requests_get(src, params)
        sent == [st EXCEPT !.requests = Append(@, params)]
    IN  IF response.status_code # 200
        THEN [sent EXCEPT !.errors = Append(@, [status_code |-> response.status_code,
                                                 text |-> response.text]),
                          !.done = TRUE, !.result = <<>>]
        ELSE IF response.json = <<>>
        THEN [sent EXCEPT !.done = TRUE, !.result = st.all_orders]
        ELSE [sent EXCEPT !.all_orders = @ \o response.json, !.page = @ + 1]

\* the requests one call is followed for
MaxRequests == MaxPages + 2

(***************************************************************************)
(* fetch_orders running against a source, one loop iteration per step.     *)
(***************************************************************************)
\* the variables of the parts a specification leaves out stay as they are here
SessionOff ==
    /\ orders_df = None
    /\ selected = {}
    /\ notice = "off"
    /\ excel_data = None
    /\ last_src = [pages |-> <<>>, endless |-> FALSE]
    /\ last_fetch = FetchStart
    /\ table_raw = <<>>
    /\ last_effect = [kind |-> "none", ticked |-> FALSE]

PipelineOff ==
    p_pc = "off" /\ p_raw = <<>> /\ p_table = None /\ p_sel = None /\ p_out = None
FetchOff == f_src = [pages |-> <<>>, endless |-> FALSE] /\ f_st = FetchStart

InitFetch ==
    /\ f_src \in Sources(MaxPages)
    /\ f_st = FetchStart
    /\ PipelineOff
    /\ SessionOff

RequestPage ==
    /\ ~f_st.done
    /\ f_st.page <= MaxRequests
    /\ f_st' = FetchStep(f_st, f_src)
    /\ UNCHANGED <<f_src, p_vars, s_vars>>

NextFetch == RequestPage

\* the loop is sequential code: while it can take its next iteration it does
SpecFetch == InitFetch /\ [][NextFetch]_vars /\ WF_vars(RequestPage)

(***************************************************************************)
(* The pipeline called on its own: process_orders on any raw list, then    *)
(* generate_excel on any sub-frame of the table.                           *)
(***************************************************************************)
\* df[mask]: the rows whose position is in mask, order kept
RECURSIVE RowsAt(_, _, _)
RowsAt(df, mask, k) ==
    IF k > Len(df) THEN <<>>
    ELSE (IF k \in mask THEN <<df[k]>> ELSE <<>>) \o RowsAt(df, mask, k + 1)

InitPipeline ==
    /\ p_pc = "raw"
    /\ p_raw \in SeqsUpTo(RawOrders, MaxOrders)
    /\ p_table = None
    /\ p_sel = None
    /\ p_out = None
    /\ FetchOff
    /\ SessionOff

Normalize ==
    /\ p_pc = "raw"
    /\ p_table' = Some(process_orders(p_raw))
    /\ p_pc' = "normalized"
    /\ UNCHANGED <<p_raw, p_sel, p_out, f_vars, s_vars>>

\* generate_excel on the rows df[mask] of a table that has rows: a frame
\* with the table's columns, also when no row is left (the frame made of no
\* orders at all has no columns to project)
Export ==
    /\ p_pc = "normalized"
    /\ ~p_table[1].raised
    /\ p_table[1].value # <<>>
    /\ \E mask \in SUBSET (1..Len(p_table[1].value)) :
          LET sel == RowsAt(p_table[1].value, mask, 1) IN
          /\ p_sel' = Some(sel)
          /\ p_out' = Some(generate_excel(sel))
    /\ p_pc' = "exported"
    /\ UNCHANGED <<p_raw, p_table, f_vars, s_vars>>

NextPipeline == Normalize \/ Export

SpecPipeline == InitPipeline /\ [][NextPipeline]_vars



(***************************************************************************)
(* The Streamlit script.  Every interaction reruns it from the top: the    *)
(* Fetch button block when the button was clicked, then the display block. *)
(***************************************************************************)
\* fetch_orders run to its return
RECURSIVE fetch_loop(_, _)
fetch_loop(st, src) ==
    IF st.done \/ st.page > MaxRequests THEN st
    ELSE fetch_loop(FetchStep(st, src), src)

fetch_orders(src) == fetch_loop(FetchStart, src)

\* variant of button_fetch: the new rows are appended to the table held
button_fetch_merge(old_df, orders) ==
    IF orders # <<>>
    THEN LET r == process_orders(orders) IN
         IF r.raised THEN Raised(r.error)
         ELSE Returned(Some((IF old_df = None THEN <<>> ELSE old_df[1]) \o r.value))
    ELSE Returned(None)

\* variant of button_fetch: without the else branch
button_fetch_keep(old_df, orders) ==
    IF orders # <<>>
    THEN LET r == process_orders(orders) IN
         IF r.raised THEN Raised(r.error) ELSE Returned(Some(r.value))
    ELSE Returned(old_df)

\* the body of the Fetch button block once fetch_orders has returned orders:
\* the value assigned to st.session_state.orders_df, or the exception raised
button_fetch(old_df, orders) ==
    IF orders # <<>>
    THEN LET r == process_orders(orders) IN
         IF r.raised THEN Raised(r.error) ELSE Returned(Some(r.value))
    ELSE Returned(None)

\* st.data_editor(df, ...): the frame with the ticked rows' Select set
data_editor(df, ticked) ==
    [i \in 1..Len(df) |-> [df[i] EXCEPT !.Select = (i \in ticked)]]

\* edited_df[edited_df["Select"] == True]
selected_rows(edited_df) == SelectSeq(edited_df, LAMBDA row : row.Select = TRUE)

\* variant of display: the workbook is built whatever is ticked
display_unguarded(df, ticked) ==
    IF df # None
    THEN LET selected_orders == selected_rows(data_editor(df[1], ticked)) IN
         [notice |-> "download", excel_data |-> Some(generate_excel(selected_orders).value)]
    ELSE [notice |-> "fetch_info", excel_data |-> None]

\* the display block
display(df, ticked) ==
    IF df # None
    THEN LET selected_orders == selected_rows(data_editor(df[1], ticked)) IN
         IF selected_orders # <<>>
         THEN [notice |-> "download", excel_data |-> Some(generate_excel(selected_orders).value)]
         ELSE [notice |-> "select_info", excel_data |-> None]
    ELSE [notice |-> "fetch_info", excel_data |-> None]

\* the first script run of a session
Init ==
    /\ orders_df = None
    /\ selected = {}
    /\ notice = display(None, {}).notice
    /\ excel_data = display(None, {}).excel_data
    /\ last_src = [pages |-> <<>>, endless |-> FALSE]
    /\ last_fetch = FetchStart
    /\ table_raw = <<>>
    /\ last_effect = [kind |-> "none", ticked |-> FALSE]
    /\ PipelineOff
    /\ FetchOff

\* what a Fetch click did to the table, for the history
Effect(old_df, outcome) ==
    IF outcome.raised THEN "raised"
    ELSE IF outcome.value = None THEN (IF old_df = None THEN "empty" ELSE "cleared")
    ELSE IF old_df = None THEN "created"
    ELSE IF outcome.value = old_df THEN "same"
    ELSE "replaced"

\* the sources of a session list pages of orders and failures, and are out
\* of data behind them
SessionSources ==
    { [pages |-> ps, endless |-> FALSE] :
        ps \in SeqsUpTo(Responses \ {Ok(<<>>)}, MaxSessionPages) }

\* what a click on Fetch Orders computes against each source: the
\* fetch_orders call and the orders it returns
FetchedFrom == [src \in SessionSources |-> fetch_orders(src)]

\* a click on Fetch Orders
ClickFetch ==
    \E src \in SessionSources :
        \E outcome \in {button_fetch(orders_df, FetchedFrom[src].result)} :
            /\ last_src' = src
            /\ last_fetch' = FetchedFrom[src]
            /\ last_effect' = [kind |-> Effect(orders_df, outcome), ticked |-> selected # {}]
            /\ IF outcome.raised
               THEN \* the script run ends in the exception: the table is kept,
                    \* the display block is not reached, and whether the editor
                    \* keeps its edits is Streamlit's choice
                    /\ UNCHANGED <<orders_df, table_raw>>
                    /\ selected' \in {selected, {}}
                    /\ notice' = "exception"
                    /\ excel_data' = None
               ELSE /\ orders_df' = outcome.value
                    /\ table_raw' = FetchedFrom[src].result
                    \* the editor starts afresh on new data; on the same data
                    \* whether it keeps its edits is Streamlit's choice
                    /\ selected' \in (IF outcome.value = orders_df THEN {selected, {}} ELSE {{}})
                    /\ \E shown \in {display(orders_df', selected')} :
                          notice' = shown.notice /\ excel_data' = shown.excel_data
            /\ UNCHANGED <<p_vars, f_vars>>

\* a tick or untick of one row's Select checkbox in the editor
ToggleSelect ==
    /\ notice \in {"download", "select_info"}
    /\ \E i \in 1..Len(orders_df[1]) :
          selected' = (IF i \in selected THEN selected \ {i} ELSE selected \cup {i})
    /\ \E shown \in {display(orders_df, selected')} :
          notice' = shown.notice /\ excel_data' = shown.excel_data
    /\ UNCHANGED <<orders_df, last_src, last_fetch, table_raw, last_effect, p_vars, f_vars>>

\* any other interaction (a date input): the script runs without the click
Rerun ==
    /\ \E shown \in {display(orders_df, selected)} :
          notice' = shown.notice /\ excel_data' = shown.excel_data
    /\ UNCHANGED <<orders_df, selected, last_src, last_fetch, table_raw, last_effect,
                   p_vars, f_vars>>

Next == ClickFetch \/ ToggleSelect \/ Rerun

Spec == Init /\ [][Next]_vars

(***************************************************************************)
(* Properties of fetch_orders (SpecFetch).                                 *)
(***************************************************************************)
PageOf(src, p) == requests_get(src, [page |-> p, per_page |-> PerPage])
NonEmpty200(r) == r.status_code = 200 /\ r.json # <<>>
\* the source serves P consecutive non-empty pages and then an empty one
Serves(src, P) ==
    /\ \A p \in 1..P : NonEmpty200(PageOf(src, p))
    /\ PageOf(src, P + 1) = Ok(<<>>)
RECURSIVE ConcatPages(_, _)
ConcatPages(src, P) ==
    IF P = 0 THEN <<>> ELSE ConcatPages(src, P - 1) \o PageOf(src, P).json
RECURSIVE SizeOfPages(_, _)
SizeOfPages(src, P) ==
    IF P = 0 THEN 0 ELSE SizeOfPages(src, P - 1) + Len(PageOf(src, P).json)

\* C1: against a source that serves P non-empty pages and then an empty one,
\* all with status 200, fetch_orders returns the orders of pages 1..P
\* concatenated in page order, each once.
PaginationCompleteness ==
    \A P \in 0..MaxPages :
        (f_st.done /\ Serves(f_src, P)) =>
            /\ f_st.result = ConcatPages(f_src, P)
            /\ Len(f_st.result) = SizeOfPages(f_src, P)

\* three different pages, then out of data
CompletenessWitness ==
    /\ f_st.done
    /\ Serves(f_src, 3)
    /\ f_src.pages[1] # f_src.pages[2]
    /\ Len(f_st.result) >= 4

\* what holds of the requests issued so far
StoppingInv ==
    /\ \A i \in 1..Len(f_st.requests) : f_st.requests[i].page = i
    /\ \A i \in 1..(Len(f_st.requests) - 1) : NonEmpty200(PageOf(f_src, i))
    /\ \A P \in 0..MaxPages :
          (f_st.done /\ Serves(f_src, P)) => Len(f_st.requests) = P + 1
SourceRunsOut == \E p \in 1..(MaxPages + 1) : PageOf(f_src, p) = Ok(<<>>)

\* C2: the requests are issued one per step for pages 1, 2, 3, ... and none
\* follows the first empty page; P non-empty pages take exactly P + 1
\* requests; the call ends when the source has an empty page.
PaginationStopping ==
    /\ []StoppingInv
    /\ [][Len(f_st'.requests) = Len(f_st.requests) + 1]_f_st
    /\ [](SourceRunsOut => <>f_st.done)

\* a non-empty page behind the first empty one is never asked for
StoppingWitness ==
    /\ f_st.done
    /\ Len(f_src.pages) = 3
    /\ NonEmpty200(f_src.pages[1])
    /\ f_src.pages[2] = Ok(<<>>)
    /\ NonEmpty200(f_src.pages[3])
    /\ Len(f_st.requests) = 2


(***************************************************************************)
(* Properties of the session (Spec).                                       *)
(***************************************************************************)
\* the first page of the source that answers with a non-success status,
\* every page before it being a non-empty success; 0 when there is none
FailingPage(src) ==
    LET hit == { e \in 1..Len(src.pages) :
                    /\ src.pages[e].status_code # 200
                    /\ \A p \in 1..(e - 1) : NonEmpty200(src.pages[p]) }
    IN  IF hit = {} THEN 0 ELSE CHOOSE e \in hit : TRUE

\* C3: when a page request of the last fetch, the first or a later one,
\* answered with a non-success status, the fetch ended at that page, showed
\* the status code and body, asked for no further page, returned none of the
\* orders of the earlier pages, and no table was made of them.
UpstreamErrorAborts ==
    LET e == FailingPage(last_src) IN
    e > 0 =>
        /\ last_fetch.done
        /\ Len(last_fetch.requests) = e
        /\ \A i \in 1..e : last_fetch.requests[i].page = i
        /\ last_fetch.errors = <<[status_code |-> last_src.pages[e].status_code,
                                   text |-> last_src.pages[e].text]>>
        /\ last_fetch.result = <<>>
        /\ orders_df = None
        /\ excel_data = None

\* the second page fails after the first returned orders, a table being held
UpstreamErrorWitness ==
    /\ FailingPage(last_src) = 2
    /\ last_effect.kind = "cleared"
    /\ orders_df = None

\* C8: the table held is made of the rows of one fetch alone, the last one
\* that replaced it, and none of its rows is selected; a fetch that made a
\* table made it of exactly the orders it returned.
TableNeverMerged ==
    /\ orders_df # None =>
          /\ table_raw # <<>>
          /\ orders_df[1] = process_orders(table_raw).value
          /\ Len(orders_df[1]) = Len(table_raw)
          /\ \A i \in 1..Len(orders_df[1]) :
                /\ orders_df[1][i].Select = FALSE
                /\ \E j \in 1..Len(table_raw) : table_raw[j].id = orders_df[1][i].Order_ID
    /\ last_effect.kind \in {"created", "replaced", "same"} =>
          /\ orders_df # None
          /\ table_raw = last_fetch.result

\* a table with ticked rows was replaced by the table of another fetch
TableReplacedWitness ==
    /\ last_effect = [kind |-> "replaced", ticked |-> TRUE]
    /\ orders_df # None
    /\ Len(orders_df[1]) >= 2

\* C9: a workbook is built and offered for download only while a table is
\* held and at least one of its rows is ticked; it is the workbook of
\* exactly the ticked rows.
ExportOnlyWithSelection ==
    /\ excel_data # None =>
          /\ orders_df # None
          /\ selected # {}
          /\ selected \subseteq 1..Len(orders_df[1])
          /\ notice = "download"
          /\ Len(excel_data[1].Orders) = Cardinality(selected)
    /\ notice = "download" => excel_data # None

\* two of three rows are ticked and offered
ExportWitness ==
    /\ excel_data # None
    /\ Len(orders_df[1]) = 3
    /\ Cardinality(selected) = 2

\* C10: when the fetch_orders call of the last Fetch click returned an empty
\* list, for want of orders or after a non-200 page, no table is held, also
\* when an earlier fetch had made one.
EmptyFetchClears ==
    (last_fetch.done /\ last_fetch.result = <<>>) =>
        /\ orders_df = None
        /\ notice = "fetch_info"

\* a held table is dropped by a fetch that finds no orders
EmptyFetchWitness ==
    /\ last_effect.kind = "cleared"
    /\ last_fetch.done
    /\ last_fetch.errors = <<>>
    /\ last_fetch.requests # <<>>
    /\ orders_df = None

(***************************************************************************)
(* Properties of the pipeline (SpecPipeline).                              *)
(***************************************************************************)
WellFormed(order) == strptime_ok(order.date_created) /\ float_ok(order.total)
Malformed(raw) == { j \in 1..Len(raw) : ~WellFormed(raw[j]) }
DistinctIds(raw) == \A i, j \in 1..Len(raw) : i # j => raw[i].id # raw[j].id
\* how many of the raw orders have a smaller id than n
SmallerIds(raw, n) == Cardinality({ j \in 1..Len(raw) : raw[j].id < n })

\* the units of one line item of the source data (1 when the key is absent,
\* which the order source never sends)
Units(item) == IF "quantity" \in DOMAIN item THEN item.quantity ELSE 1
RECURSIVE UnitsOfItems(_)
UnitsOfItems(items) ==
    IF items = <<>> THEN 0 ELSE Units(Head(items)) + UnitsOfItems(Tail(items))
RECURSIVE UnitsOfRows(_)
UnitsOfRows(df) ==
    IF df = <<>> THEN 0 ELSE UnitsOfItems(Head(df).Line_Items) + UnitsOfRows(Tail(df))
RECURSIVE SummaryTotal(_)
SummaryTotal(sheet) ==
    IF sheet = <<>> THEN 0 ELSE Head(sheet).Quantity + SummaryTotal(Tail(sheet))

\* C4: for every selection of rows handed to generate_excel, the Quantity
\* column of the Item Summary sheet adds up to the quantities of all line
\* items of all selected rows: no unit is lost, none is counted twice.
AggregationConservation ==
    p_pc = "exported" =>
        SummaryTotal(p_out[1].value.Item_Summary) = UnitsOfRows(p_sel[1])

\* two selected rows share an item name, so a group sums over several rows
AggregationWitness ==
    /\ p_pc = "exported"
    /\ Len(p_sel[1]) >= 2
    /\ Len(p_out[1].value.Item_Summary) < Len(items_list(p_sel[1]))
    /\ SummaryTotal(p_out[1].value.Item_Summary) >= 4

\* C5: raw orders with distinct ids that all parse, received in any order,
\* give one row per order; the ordinals are 1..n in row order and the row
\* with ordinal i holds the i-th smallest order id.
OrdinalAssignment ==
    (p_pc # "raw" /\ DistinctIds(p_raw) /\ Malformed(p_raw) = {}) =>
        LET rows == p_table[1].value IN
        /\ ~p_table[1].raised
        /\ Len(rows) = Len(p_raw)
        /\ \A i \in 1..Len(rows) :
              /\ rows[i].S_No = i
              /\ \E j \in 1..Len(p_raw) : p_raw[j].id = rows[i].Order_ID
              /\ SmallerIds(p_raw, rows[i].Order_ID) = i - 1

\* three orders received in descending id order
OrdinalWitness ==
    /\ p_pc = "normalized"
    /\ Len(p_raw) = 3
    /\ p_raw[1].id > p_raw[2].id
    /\ p_raw[2].id > p_raw[3].id
    /\ Malformed(p_raw) = {}
    /\ Len(p_table[1].value) = 3

\* C6: generate_excel called with a selection of zero rows fails with
\* EmptySelectionError and produces no bytes.
EmptySelectionRejected ==
    (p_pc = "exported" /\ p_sel = Some(<<>>)) =>
        /\ p_out[1].raised
        /\ p_out[1].error.type = "EmptySelectionError"

\* C7: when a raw order of the batch has a date_created or a total that does
\* not parse, process_orders fails with an error that references the id of
\* such an order and returns no table.
MalformedAbortsWithId ==
    (p_pc # "raw" /\ Malformed(p_raw) # {}) =>
        /\ p_table[1].raised
        /\ p_table[1].value = <<>>
        /\ "id" \in DOMAIN p_table[1].error
        /\ \E j \in Malformed(p_raw) : p_table[1].error.id = p_raw[j].id

====
